---- MODULE Spec2Model ----
(***************************************************************************)
(* Model of src/algorithms/range_tree.cpp: a complete binary tree stored   *)
(* in a dense array (class Node, class RangeTree) with a point update      *)
(* (RangeTree::insert) and a prefix query (RangeTree::sum).                *)
(*                                                                         *)
(* The source fixes D = 16; the model keeps every formula of the source    *)
(* and scales D down.  All values stay far inside the range of a C++ int,  *)
(* so the arithmetic is plain integer arithmetic.                          *)
(***************************************************************************)
EXTENDS Integers, Sequences, FiniteSets, TLC

\* Depth of the tree (const int D), scaled down.
D == 2

\* Number of insert calls a behaviour may make.
MaxInserts == 2

\* The deltas an insert call may carry.
Deltas == {-1, 1}

\* x << n
RECURSIVE Shl(_, _)
Shl(x, n) == IF n = 0 THEN x ELSE Shl(2 * x, n - 1)

\* x >> 1, for x >= 0
Shr1(x) == x \div 2

MAX_LEAVES == Shl(1, D)

TREE_SIZE == Shl(1, D + 1)

Slots == 0 .. (TREE_SIZE - 1)

Leaves == 0 .. (MAX_LEAVES - 1)

(***************************************************************************)
(* class Node                                                              *)
(***************************************************************************)

\* Node(int d, int _ni) : level(d), ni(_ni), val(0)
NodeCtor(d, _ni) == [level |-> d, ni |-> _ni, val |-> 0]

blevel(node) == D - node.level

leveli(node) == node.ni - Shl(1, node.level)

upper_li(node) == (leveli(node) + 1) * Shl(1, blevel(node))

lower_li(node) == leveli(node) * Shl(1, blevel(node))

\* Node() {} leaves every field as it was: the contents of a slot that no
\* constructor call assigns.  Either the storage was zeroed (a tree with static
\* storage duration) or it holds leftovers.
Uninitialized ==
    { [level |-> 0, ni |-> 0, val |-> 0], [level |-> 0, ni |-> 3, val |-> 7] }

(***************************************************************************)
(* class RangeTree                                                         *)
(***************************************************************************)

\* The slots the constructor's two loops assign: start = 1 << d, end = 2 << d.
CtorWrites ==
    { ni \in Slots : \E d \in 0 .. D : Shl(1, d) <= ni /\ ni < Shl(2, d) }

\* RangeTree(): nodes[ni] = Node(d, ni) for d in 0..D, ni in [1 << d, 2 << d).
RangeTreeCtor(raw) ==
    [ ni \in Slots |->
        IF ni \in CtorWrites
        THEN NodeCtor(CHOOSE d \in 0 .. D : Shl(1, d) <= ni /\ ni < Shl(2, d), ni)
        ELSE raw[ni] ]

parent_i(ni) == ni \div 2

node_i(li) == li + MAX_LEAVES

\* Mutant: node.val = val, an assignment where the code accumulates.
InsertIter_Assign(ns, ni, val) ==
    [ nodes |-> [ns EXCEPT ![ni].val = val], ni |-> Shr1(ni) ]

\* One iteration of insert's loop body: node.val += val; ni >>= 1.
InsertIter(ns, ni, val) ==
    [ nodes |-> [ns EXCEPT ![ni].val = @ + val], ni |-> Shr1(ni) ]

\* Mutant: while(ni > 1), a walk that stops below the root.
RECURSIVE InsertLoop_SkipRoot(_, _, _)
InsertLoop_SkipRoot(ns, ni, val) ==
    IF ni > 1
    THEN LET it == [ nodes |-> [ns EXCEPT ![ni].val = @ + val], ni |-> Shr1(ni) ]
         IN  InsertLoop_SkipRoot(it.nodes, it.ni, val)
    ELSE ns

\* while(ni > 0) { ... }
RECURSIVE InsertLoop(_, _, _)
InsertLoop(ns, ni, val) ==
    IF ni > 0
    THEN LET it == InsertIter(ns, ni, val) IN InsertLoop(it.nodes, it.ni, val)
    ELSE ns

\* The slots insert's loop visits from ni on.
RECURSIVE InsertVisits(_)
InsertVisits(ni) == IF ni > 0 THEN {ni} \cup InsertVisits(Shr1(ni)) ELSE {}

\* Mutant: the start is the leaf upper_leaf_bound itself (the - 1 forgotten).
SumStart_NoMinusOne(upper_leaf_bound) == upper_leaf_bound + MAX_LEAVES

\* int ni = upper_leaf_bound - 1 + MAX_LEAVES
SumStart(upper_leaf_bound) == upper_leaf_bound - 1 + MAX_LEAVES

\* Mutant: the guard && ni > 1 is missing, so the walk may leave the root upwards.
SumCond_NoRootGuard(ns, ni, upper_leaf_bound) ==
    upper_li(ns[Shr1(ni)]) <= upper_leaf_bound

\* Mutant: < where the code has <=, so a parent that ends at the bound is not used.
SumCond_Strict(ns, ni, upper_leaf_bound) ==
    upper_li(ns[Shr1(ni)]) < upper_leaf_bound /\ ni > 1

\* nodes[parenti].upper_li() <= upper_leaf_bound && ni > 1
\* (the left operand is evaluated first, whatever ni is)
SumCond(ns, ni, upper_leaf_bound) ==
    upper_li(ns[Shr1(ni)]) <= upper_leaf_bound /\ ni > 1

\* Mutant: self.leveli() >= 0, which steps left off the left-most node too.
SumCanStepLeft_Geq(self) == leveli(self) >= 0

\* Mutant: self.leveli() > 1, which stops one node early.
SumCanStepLeft_Gt1(self) == leveli(self) > 1

\* Does the step left?  self.leveli() > 0
SumCanStepLeft(self) == leveli(self) > 0

\* ni -= 1
SumLeft(ni) == ni - 1

\* Mutant: s += self.val hoisted above the if, so an ascend adds the node as well.
SumIter_AddOnAscend(ns, upper_leaf_bound, st) ==
    LET parenti == Shr1(st.ni)
        self == ns[st.ni]
    IN  IF SumCond(ns, st.ni, upper_leaf_bound)
        THEN [st EXCEPT !.ni = parenti, !.s = st.s + self.val]
        ELSE IF leveli(self) > 0
             THEN [ni |-> st.ni - 1, s |-> st.s + self.val, brk |-> FALSE]
             ELSE [ni |-> st.ni, s |-> st.s + self.val, brk |-> TRUE]

\* One iteration of sum's loop body on the locals st = [ni, s, brk].
SumIter(ns, upper_leaf_bound, st) ==
    LET parenti == Shr1(st.ni) IN
    IF SumCond(ns, st.ni, upper_leaf_bound)
    THEN [st EXCEPT !.ni = parenti]
    ELSE LET self == ns[st.ni] IN
         IF SumCanStepLeft(self)
         THEN [ni |-> SumLeft(st.ni), s |-> st.s + self.val, brk |-> FALSE]
         ELSE [ni |-> st.ni, s |-> st.s + self.val, brk |-> TRUE]

\* The slots one iteration reads.
SumReads(ns, upper_leaf_bound, ni) ==
    IF SumCond(ns, ni, upper_leaf_bound) THEN {Shr1(ni)} ELSE {Shr1(ni), ni}

\* while(ni > 0) { ... break ... } return s;
RECURSIVE SumLoop(_, _, _)
SumLoop(ns, upper_leaf_bound, st) ==
    IF st.ni > 0 /\ ~st.brk
    THEN SumLoop(ns, upper_leaf_bound, SumIter(ns, upper_leaf_bound, st))
    ELSE st.s

\* int sum(int upper_leaf_bound), run to completion on the array ns.
sum(ns, upper_leaf_bound) ==
    SumLoop(ns, upper_leaf_bound,
            [ni |-> SumStart(upper_leaf_bound), s |-> 0, brk |-> FALSE])

(***************************************************************************)
(* State                                                                   *)
(***************************************************************************)
VARIABLES
    nodes,      \* RangeTree::nodes
    inserted,   \* history: how many times insert(li, v) was called, per (li, v)
    pcS,        \* the sum call: "idle", "loop" (inside while), "done" (returned s)
    ub,         \* sum's argument upper_leaf_bound
    sni,        \* sum's local ni
    s,          \* sum's local s
    added,      \* history: the slots whose val this sum call added, in order
    ascends,    \* history: how many times this sum call moved to the parent
    lastAcc,    \* history: the slots of nodes[] the last step read or wrote
    insPc,      \* a stepwise insert call: "idle" or "run"
    insLi,      \* its argument li
    insVal,     \* its argument val
    insNi,      \* its local ni
    race        \* history: the insert call that overlapped the current sum call

vars == << nodes, inserted, pcS, ub, sni, s, added, ascends, lastAcc,
           insPc, insLi, insVal, insNi, race >>

NoRace == [li |-> -1, val |-> 0]

Calls == Leaves \X Deltas

RECURSIVE SetSum(_, _)
SetSum(S, f) ==
    IF S = {} THEN 0
    ELSE LET x == CHOOSE y \in S : TRUE IN f[x] + SetSum(S \ {x}, f)

\* Number of insert calls made so far.
NumInserts == SetSum(Calls, inserted)

\* Reference: the sum of v over all inserted (li, v) with lo <= li < hi.
RangeRef(lo, hi) ==
    SetSum({c \in Calls : lo <= c[1] /\ c[1] < hi},
           [c \in Calls |-> inserted[c] * c[2]])

PrefixRef(k) == RangeRef(0, k)

TotalRef == RangeRef(0, MAX_LEAVES)

sumIdle ==
    /\ pcS' = "idle" /\ ub' = 0 /\ sni' = 0 /\ s' = 0
    /\ added' = << >> /\ ascends' = 0 /\ race' = NoRace

Init ==
    /\ \E g \in Uninitialized : nodes = RangeTreeCtor([ni \in Slots |-> g])
    /\ inserted = [c \in Calls |-> 0]
    /\ pcS = "idle" /\ ub = 0 /\ sni = 0 /\ s = 0
    /\ added = << >> /\ ascends = 0 /\ race = NoRace
    /\ lastAcc = CtorWrites
    /\ insPc = "idle" /\ insLi = 0 /\ insVal = 0 /\ insNi = 0

(***************************************************************************)
(* Operations, single-threaded use                                         *)
(***************************************************************************)

\* void insert(int li, int val), the whole call.
Insert(li, val) ==
    /\ pcS = "idle" /\ insPc = "idle"
    /\ NumInserts < MaxInserts
    /\ nodes' = InsertLoop(nodes, node_i(li), val)
    /\ inserted' = [inserted EXCEPT ![<<li, val>>] = @ + 1]
    /\ lastAcc' = InsertVisits(node_i(li))
    /\ UNCHANGED << pcS, ub, sni, s, added, ascends, insPc, insLi, insVal, insNi, race >>

\* sum(upper_leaf_bound) is called: the two initialisations before the loop.
SumBegin(upper_leaf_bound) ==
    /\ pcS = "idle"
    /\ pcS' = "loop"
    /\ ub' = upper_leaf_bound
    /\ sni' = SumStart(upper_leaf_bound)
    /\ s' = 0
    /\ added' = << >>
    /\ ascends' = 0
    /\ lastAcc' = {}
    /\ race' = IF insPc = "run" THEN [li |-> insLi, val |-> insVal] ELSE NoRace
    /\ UNCHANGED << nodes, inserted, insPc, insLi, insVal, insNi >>

\* One evaluation of the while condition and, when it holds, of the loop body.
SumStep ==
    /\ pcS = "loop"
    /\ IF sni > 0
       THEN LET st == SumIter(nodes, ub, [ni |-> sni, s |-> s, brk |-> FALSE])
                up == SumCond(nodes, sni, ub)
            IN  /\ sni' = st.ni
                /\ s' = st.s
                /\ pcS' = IF st.brk THEN "done" ELSE "loop"
                /\ added' = IF up THEN added ELSE Append(added, sni)
                /\ ascends' = IF up THEN ascends + 1 ELSE ascends
                /\ lastAcc' = SumReads(nodes, ub, sni)
       ELSE /\ pcS' = "done"
            /\ lastAcc' = {}
            /\ UNCHANGED << sni, s, added, ascends >>
    /\ UNCHANGED << nodes, inserted, ub, insPc, insLi, insVal, insNi, race >>

\* The caller takes the returned value.
SumReturn ==
    /\ pcS = "done"
    /\ sumIdle
    /\ lastAcc' = {}
    /\ UNCHANGED << nodes, inserted, insPc, insLi, insVal, insNi >>

Next ==
    \/ \E li \in Leaves, val \in Deltas : Insert(li, val)
    \/ \E k \in 0 .. MAX_LEAVES : SumBegin(k)
    \/ SumStep
    \/ SumReturn

Spec == Init /\ [][Next]_vars

\* A call that has started keeps running: the loop is straight-line sequential code.
FairSpec == Spec /\ WF_vars(SumStep)

(***************************************************************************)
(* Operations, one insert call interleaved with one sum call at the        *)
(* granularity of single node accesses                                     *)
(***************************************************************************)

\* insert(li, val) is called: int ni = node_i(li).  At most one insert call
\* overlaps a given sum call.
InsBegin(li, val) ==
    /\ insPc = "idle"
    /\ pcS # "done"
    /\ pcS = "loop" => race = NoRace
    /\ NumInserts < MaxInserts
    /\ insPc' = "run" /\ insLi' = li /\ insVal' = val
    /\ insNi' = node_i(li)
    /\ inserted' = [inserted EXCEPT ![<<li, val>>] = @ + 1]
    /\ race' = IF pcS = "loop" THEN [li |-> li, val |-> val] ELSE race
    /\ lastAcc' = {}
    /\ UNCHANGED << nodes, pcS, ub, sni, s, added, ascends >>

\* One iteration of insert's loop; the call returns when ni reaches 0.
InsStep ==
    /\ insPc = "run"
    /\ LET it == InsertIter(nodes, insNi, insVal) IN
       /\ nodes' = it.nodes
       /\ lastAcc' = {insNi}
       /\ IF it.ni > 0
          THEN insNi' = it.ni /\ UNCHANGED << insPc, insLi, insVal >>
          ELSE insPc' = "idle" /\ insLi' = 0 /\ insVal' = 0 /\ insNi' = 0
    /\ UNCHANGED << inserted, pcS, ub, sni, s, added, ascends, race >>

NextC ==
    \/ \E li \in Leaves, val \in Deltas : InsBegin(li, val)
    \/ InsStep
    \/ \E k \in 1 .. MAX_LEAVES : SumBegin(k)
    \/ SumStep
    \/ SumReturn

ConcSpec == Init /\ [][NextC]_vars

(***************************************************************************)
(* Properties                                                              *)
(***************************************************************************)

TreeNodes == 1 .. (TREE_SIZE - 1)

\* The nodes whose coverage range [lower_li, upper_li) contains leaf li.
Covering(li) ==
    { ni \in TreeNodes : lower_li(nodes[ni]) <= li /\ li < upper_li(nodes[ni]) }

\* The sum call has just been entered: nothing added, no ascend yet.
SumAtStart == pcS = "loop" /\ added = << >> /\ ascends = 0

\* C1: after any sequence of inserts on a fresh tree, sum(k) for 1 <= k <= MAX_LEAVES
\* returns exactly the sum of v over the inserted (li, v) with li < k (0 on a fresh
\* tree): both for the call in progress once it has returned, and for a call made
\* with any k in a state where no call is in progress (nodes does not change
\* while a call runs).
C1_SumIsPrefix ==
    /\ (pcS = "done" /\ ub >= 1) => s = PrefixRef(ub)
    /\ pcS = "idle" => \A k \in 1 .. MAX_LEAVES : sum(nodes, k) = PrefixRef(k)

C1_Witness ==
    /\ pcS = "done" /\ ub = MAX_LEAVES - 1
    /\ NumInserts = 2
    /\ s # 0 /\ s # TotalRef

\* C2: after construction and after every completed insert, val of every slot
\* 1..TREE_SIZE-1 is the sum of the deltas inserted at the leaves it covers.
C2_ValIsCoverageSum ==
    \A ni \in TreeNodes :
        nodes[ni].val = RangeRef(lower_li(nodes[ni]), upper_li(nodes[ni]))

C2_Witness ==
    /\ NumInserts = 2
    /\ nodes[1].val # 0
    /\ \E ni \in TreeNodes : nodes[ni].level = D - 1 /\ nodes[ni].val = 2
    /\ \E ni \in TreeNodes : nodes[ni].level = D /\ nodes[ni].val = 1

\* C3 (as claimed): for all 0 <= lo <= hi <= MAX_LEAVES, lo = 0 included,
\* sum(hi) - sum(lo) is the sum of the deltas inserted at leaves in [lo, hi).
C3_RangeDerivation ==
    pcS = "idle" =>
        \A lo \in 0 .. MAX_LEAVES, hi \in 0 .. MAX_LEAVES :
            lo <= hi => sum(nodes, hi) - sum(nodes, lo) = RangeRef(lo, hi)

\* C4: insert(li, val) adds val to val of exactly the D+1 slots li+MAX_LEAVES,
\* (li+MAX_LEAVES)/2, ..., 1, which are exactly the nodes whose coverage range
\* contains li; every other val, and level and ni of every slot, stay as they were.
C4_InsertFrame ==
    [][ \A li \in Leaves, val \in Deltas :
          Insert(li, val) =>
            LET path == { node_i(li) \div Shl(1, k) : k \in 0 .. D } IN
            /\ Cardinality(path) = D + 1
            /\ path = Covering(li)
            /\ 1 \in path /\ node_i(li) \in path
            /\ \A ni \in Slots :
                 /\ nodes'[ni].level = nodes[ni].level
                 /\ nodes'[ni].ni = nodes[ni].ni
                 /\ nodes'[ni].val =
                      nodes[ni].val + (IF ni \in path THEN val ELSE 0) ]_vars

C4_Witness ==
    /\ NumInserts = 2
    /\ lastAcc = InsertVisits(node_i(MAX_LEAVES - 1))
    /\ nodes[node_i(MAX_LEAVES - 1)].val = 1
    /\ nodes[1].val = 2
    /\ nodes[node_i(0)].val = 1

\* C5 (as claimed): no step of construction, of insert with a valid li, or of
\* sum(upperBound) with 1 <= upperBound <= MAX_LEAVES reads or writes nodes[0].
C5_SlotZeroUnused ==
    (pcS = "idle" \/ ub >= 1) => 0 \notin lastAcc

\* C6 (as claimed): for sum(0) the climb starts at the last leaf, the node whose
\* coverage range is [MAX_LEAVES-1, MAX_LEAVES).
C6_StartsAtLastLeaf ==
    (SumAtStart /\ ub = 0) =>
        /\ sni = node_i(MAX_LEAVES - 1)
        /\ lower_li(nodes[sni]) = MAX_LEAVES - 1
        /\ upper_li(nodes[sni]) = MAX_LEAVES

\* C6 (amended): for sum(0) the climb starts at slot MAX_LEAVES-1, which is not a
\* leaf but the right-most node of level D-1, covering [MAX_LEAVES-2, MAX_LEAVES).
C6_StartsAtLastInnerNode ==
    (SumAtStart /\ ub = 0) =>
        /\ sni = MAX_LEAVES - 1
        /\ nodes[sni].level = D - 1
        /\ sni + 1 = Shl(2, nodes[sni].level)
        /\ lower_li(nodes[sni]) = MAX_LEAVES - 2
        /\ upper_li(nodes[sni]) = MAX_LEAVES

C6_Witness == SumAtStart /\ ub = 0 /\ NumInserts = 1

\* C7: for 1 <= upperBound <= MAX_LEAVES the loop of sum terminates, and every
\* iteration that does not end it either ascends to a node of strictly smaller
\* level or keeps the level and strictly decreases leveli(): the pair
\* (level, leveli), both >= 0, decreases lexicographically.
C7_SumTerminates ==
    /\ [][ (pcS = "loop" /\ pcS' = "loop" /\ ub >= 1) =>
             LET a == nodes[sni]
                 b == nodes'[sni']
             IN  /\ b.level >= 0 /\ leveli(b) >= 0
                 /\ IF ascends' = ascends + 1
                    THEN b.level < a.level
                    ELSE b.level = a.level /\ leveli(b) < leveli(a) ]_vars
    /\ (pcS = "loop" /\ ub >= 1) ~> (pcS = "done")

C7_Witness ==
    /\ pcS = "done" /\ ub >= 1
    /\ ascends >= 1 /\ Len(added) >= 2

\* C8: for 1 <= upperBound <= MAX_LEAVES one sum call adds at most one node per
\* level, so it makes at most D+1 additions and at most D ascends.
C8_OneAddPerLevel ==
    (pcS # "idle" /\ ub >= 1) =>
        /\ \A i \in 1 .. Len(added), j \in 1 .. Len(added) :
             i # j => nodes[added[i]].level # nodes[added[j]].level
        /\ Len(added) <= D + 1
        /\ ascends <= D

C8_Witness ==
    /\ pcS = "done" /\ ub >= 1
    /\ Len(added) = D /\ ascends >= 1

\* The nodes of level D-1, right to left.
LevelAboveLeaves ==
    [ i \in 1 .. Shl(1, D - 1) |-> MAX_LEAVES - i ]

\* C9, first part (common to the claim and its amendment): sum(0) terminates and
\* returns the total of all deltas, the value of sum(MAX_LEAVES), by adding every
\* node of level D-1 from slot MAX_LEAVES-1 leftwards.
SumZeroIsTotal ==
    /\ pcS = "idle" =>
          sum(nodes, 0) = TotalRef /\ sum(nodes, 0) = sum(nodes, MAX_LEAVES)
    /\ (pcS = "done" /\ ub = 0) =>
          s = TotalRef /\ added = LevelAboveLeaves /\ ascends = 0

\* C9 (as claimed): ... and sum(hi) - sum(0) differs from the prefix aggregate over
\* [0, hi) whenever the deltas at leaves >= hi make the total differ from it.
C9_SumZeroAsClaimed ==
    /\ SumZeroIsTotal
    /\ pcS = "idle" => \A hi \in 1 .. MAX_LEAVES :
         TotalRef # PrefixRef(hi) =>
            sum(nodes, hi) - sum(nodes, 0) # PrefixRef(hi)

\* C9 (amended): ... and sum(hi) - sum(0) is the prefix aggregate minus the total,
\* so it differs from the prefix aggregate over [0, hi) exactly when the total of
\* all deltas is not 0.
C9_SumZeroAmended ==
    /\ SumZeroIsTotal
    /\ pcS = "idle" => \A hi \in 1 .. MAX_LEAVES :
         /\ sum(nodes, hi) - sum(nodes, 0) = PrefixRef(hi) - TotalRef
         /\ (sum(nodes, hi) - sum(nodes, 0) # PrefixRef(hi)) <=> (TotalRef # 0)

C9_Witness ==
    /\ pcS = "done" /\ ub = 0
    /\ NumInserts = 2
    /\ s = 2

\* What the racing insert call contributes to the prefix below ub.
RaceContribution == IF race # NoRace /\ race.li < ub THEN race.val ELSE 0

\* C10: a sum(upperBound) call, 1 <= upperBound <= MAX_LEAVES, interleaved with
\* one in-flight insert at the granularity of single node accesses returns either
\* the prefix aggregate before that insert or the one after it.
C10_BeforeOrAfter ==
    (pcS = "done" /\ ub >= 1) =>
        s \in { PrefixRef(ub) - RaceContribution, PrefixRef(ub) }

\* The insert has written some but not all of its nodes, and sum returned the
\* value before it.
C10_Witness ==
    /\ pcS = "done" /\ ub >= 1
    /\ race # NoRace /\ race.li < ub
    /\ insPc = "run" /\ insNi < node_i(insLi)
    /\ s = PrefixRef(ub) - race.val
    /\ PrefixRef(ub) - race.val # 0

====
